---- MODULE Spec2Model ----
(***************************************************************************)
(* The scheduled-email engine of mail-scheduler (src/index.js and its      *)
(* variant src/unnamed/part_000): the in-memory registry `jobs`, the       *)
(* node-schedule timers behind it, the Job collection in MongoDB, the      *)
(* /schedule-email and /cancel-email handlers, the timer callback and      *)
(* loadJobs.                                                               *)
(*                                                                         *)
(* Node runs one callback at a time, so every action below is one          *)
(* run-to-completion piece of a handler: from its entry (or from the       *)
(* resumption after an await) to its next await or its end.  What the      *)
(* database does with an operation that was sent to it is a step of its    *)
(* own, taken at any moment between the send and the resumption.           *)
(***************************************************************************)
EXTENDS Integers, FiniteSets, Sequences, TLC

\* ---- bounds ----
MaxJobs    == 2     \* schedule requests (fresh uuids) over a run
MaxTime    == 3     \* the clock runs 0..MaxTime
MaxCancels == 2     \* cancel requests over a run
MaxCrashes == 1     \* process crashes over a run
MaxReqs    == 3     \* HTTP requests (schedule and cancel together) over a run

Ids     == 1..MaxJobs
Times   == 0..MaxTime
\* the sendAt values a request may carry: the earliest and a late one
SendTimes == {0, MaxTime - 1}
\* A timer handle: within one process life an id is armed at most once by the
\* /schedule-email route and at most once by loadJobs.
Origins == {"route", "load"}
Handles == Ids \X Origins
\* a jobId that no schedule request generated (a cancel of a made-up id)
Unknown == 0
\* jobs[id] when the key is absent (undefined), and when scheduleJob returned null
NoJob   == "undefined"
NullJob == "null"

VARIABLES
    phase,      \* "down": no process (or connecting); "up": listening
    now,        \* Date.now()
    crashes,    \* crashes so far
    store,      \* the Job collection: the set of jobIds that have a document
    sendAt,     \* sendAt[id]: the sendAt of the request / document of id
    jobs,       \* the registry: jobs[id] is NoJob, NullJob or an origin (the handle)
    timers,     \* node-schedule: the handles with a pending invocation
    loader,     \* loadJobs: "idle", "finding", "scanned", "done", "failed"
    scan,       \* the jobDocs that Job.find({}) resolved to
    sreq,       \* sreq[id]: the /schedule-email request that generated id
    creq,       \* the /cancel-email requests, in order of arrival
    mail,       \* handles whose sendMail callback has not been called yet
    fdel,       \* handles whose callback's Job.deleteOne is at the database
    notified,   \* notified[id]: number of transporter.sendMail calls for id
    failed,     \* ids for which a sendMail callback reported an error
    atBoot,     \* ids that had a document with sendAt ahead when the process started
    armed       \* ids for which scheduleJob has returned a job at least once

vars == <<phase, now, crashes, store, sendAt, jobs, timers, loader,
          scan, sreq, creq, mail, fdel, notified, failed, atBoot, armed>>

\* ---- node-schedule ----

\* schedule.scheduleJob(date, fn) of node-schedule: a one-time job gets an
\* invocation only when date.getTime() >= Date.now(); for an earlier date
\* scheduleJob returns null and fn is never called.
ScheduleJob(at, t) == at >= t

\* scheduleEmail(jobId, ..., sendAt): arm a timer and store the handle (or
\* the null that scheduleJob returned) under jobId, over whatever was there.
ScheduleEmail(js, ts, id, origin) ==
    IF ScheduleJob(sendAt[id], now)
    THEN [j |-> [js EXCEPT ![id] = origin], t |-> ts \cup {<<id, origin>>}]
    ELSE [j |-> [js EXCEPT ![id] = NullJob], t |-> ts]

RECURSIVE ScheduleAll(_, _, _)
\* jobDocs.forEach(jobDoc => scheduleEmail(...)) of loadJobs
ScheduleAll(js, ts, docs) ==
    IF docs = {} THEN [j |-> js, t |-> ts]
    ELSE LET d == CHOOSE x \in docs : TRUE
             r == ScheduleEmail(js, ts, d, "load")
         IN ScheduleAll(r.j, r.t, docs \ {d})

\* ---- initial state ----

\* The first process on an empty collection, when the "open" and "listening"
\* callbacks have run: the server listens and loadJobs() has sent Job.find({}).
Init ==
    /\ phase = "up"
    /\ now = 0
    /\ crashes = 0
    /\ store = {}
    /\ sendAt = [i \in Ids |-> 0]
    /\ jobs = [i \in Ids |-> NoJob]
    /\ timers = {}
    /\ loader = "finding"
    /\ scan = {}
    /\ sreq = [i \in Ids |-> "none"]
    /\ creq = <<>>
    /\ mail = {}
    /\ fdel = {}
    /\ notified = [i \in Ids |-> 0]
    /\ failed = {}
    /\ atBoot = {}
    /\ armed = {}

\* ---- the process ----

\* A new process after a crash.  mongoose.connection.once("open") ->
\* app.listen -> loadJobs(): the server listens and Job.find({}) has been
\* sent.  Booting takes clock time.
Start ==
    /\ phase = "down"
    /\ now < MaxTime
    /\ phase' = "up"
    /\ now' = now + 1
    /\ loader' = "finding"
    /\ atBoot' = {i \in store : sendAt[i] > now + 1}
    /\ UNCHANGED <<crashes, store, sendAt, jobs, timers, scan, sreq,
                   creq, mail, fdel, notified, failed, armed>>

\* The clock advances.
Tick ==
    /\ now < MaxTime
    /\ now' = now + 1
    /\ UNCHANGED <<phase, crashes, store, sendAt, jobs, timers, loader,
                   scan, sreq, creq, mail, fdel, notified, failed, atBoot, armed>>

\* The process dies: the registry, the timers and every handler in progress
\* are gone; operations that have not reached the database are lost with it.
Crash ==
    /\ phase = "up"
    /\ crashes < MaxCrashes
    /\ phase' = "down"
    /\ crashes' = crashes + 1
    /\ jobs' = [i \in Ids |-> NoJob]
    /\ timers' = {}
    /\ loader' = "idle"
    /\ scan' = {}
    /\ sreq' = [i \in Ids |->
                  IF sreq[i] \in {"saving", "saved"} THEN "lost" ELSE sreq[i]]
    /\ creq' = [k \in 1..Len(creq) |->
                  IF creq[k].st \in {"deleting", "deleted"}
                  THEN [creq[k] EXCEPT !.st = "lost"] ELSE creq[k]]
    /\ mail' = {}
    /\ fdel' = {}
    /\ UNCHANGED <<now, store, sendAt, notified, failed, atBoot, armed>>

\* ---- loadJobs ----

\* The database answers Job.find({}): the documents it holds at that moment.
FindScan ==
    /\ phase = "up"
    /\ loader = "finding"
    /\ scan' = store
    /\ loader' = "scanned"
    /\ UNCHANGED <<phase, now, crashes, store, sendAt, jobs, timers,
                   sreq, creq, mail, fdel, notified, failed, atBoot, armed>>

\* Job.find({}) rejects: loadJobs ends at its await, nothing is armed.
FindFail ==
    /\ phase = "up"
    /\ loader = "finding"
    /\ loader' = "failed"
    /\ UNCHANGED <<phase, now, crashes, store, sendAt, jobs, timers,
                   scan, sreq, creq, mail, fdel, notified, failed, atBoot, armed>>

\* loadJobs resumes after its await and arms every document of the answer.
LoadResume ==
    /\ phase = "up"
    /\ loader = "scanned"
    /\ LET r == ScheduleAll(jobs, timers, scan)
       IN /\ jobs' = r.j
          /\ timers' = r.t
          /\ armed' = armed \cup {i \in scan : r.j[i] = "load"}
    /\ loader' = "done"
    /\ UNCHANGED <<phase, now, crashes, store, sendAt, scan, sreq,
                   creq, mail, fdel, notified, failed, atBoot>>

\* ---- POST /schedule-email ----

\* The requests that have arrived so far.
Arrived == Cardinality({i \in Ids : sreq[i] # "none"}) + Len(creq)

\* uuidv4(): an id no request had before.
FreshId == CHOOSE i \in Ids : sreq[i] = "none" /\ \A j \in 1..(i-1) : sreq[j] # "none"

\* The handler up to `await job.save()`.
SchedStart(at) ==
    /\ phase = "up"
    /\ Arrived < MaxReqs
    /\ \E i \in Ids : sreq[i] = "none"
    /\ sreq' = [sreq EXCEPT ![FreshId] = "saving"]
    /\ sendAt' = [sendAt EXCEPT ![FreshId] = at]
    /\ UNCHANGED <<phase, now, crashes, store, jobs, timers, loader,
                   scan, creq, mail, fdel, notified, failed, atBoot, armed>>

\* The database inserts the document.
SaveOk(id) ==
    /\ phase = "up"
    /\ sreq[id] = "saving"
    /\ store' = store \cup {id}
    /\ sreq' = [sreq EXCEPT ![id] = "saved"]
    /\ UNCHANGED <<phase, now, crashes, sendAt, jobs, timers, loader,
                   scan, creq, mail, fdel, notified, failed, atBoot, armed>>

\* job.save() rejects: the handler throws at its await and never answers.
SaveFail(id) ==
    /\ phase = "up"
    /\ sreq[id] = "saving"
    /\ sreq' = [sreq EXCEPT ![id] = "failed"]
    /\ UNCHANGED <<phase, now, crashes, store, sendAt, jobs, timers,
                   loader, scan, creq, mail, fdel, notified, failed, atBoot, armed>>

\* The handler after the await: scheduleEmail(...), res.json({ jobId }).
SchedResume(id) ==
    /\ phase = "up"
    /\ sreq[id] = "saved"
    /\ LET r == ScheduleEmail(jobs, timers, id, "route")
       IN /\ jobs' = r.j
          /\ timers' = r.t
          /\ armed' = IF r.j[id] = "route" THEN armed \cup {id} ELSE armed
    /\ sreq' = [sreq EXCEPT ![id] = "ok"]
    /\ UNCHANGED <<phase, now, crashes, store, sendAt, loader, scan,
                   creq, mail, fdel, notified, failed, atBoot>>

\* ---- the timer callback ----

\* A callback that waits for sendMail to return before it cleans up: it would
\* leave jobs[jobId] and the record in place while the Notifier is outstanding.
FireAwaitingMail(h) ==
    /\ phase = "up"
    /\ h \in timers
    /\ now >= sendAt[h[1]]
    /\ timers' = timers \ {h}
    /\ notified' = [notified EXCEPT ![h[1]] = @ + 1]
    /\ mail' = mail \cup {h}
    /\ UNCHANGED <<phase, now, crashes, store, sendAt, jobs, fdel, loader, scan,
                   sreq, creq, failed, atBoot, armed>>

\* The callback given to scheduleJob: sendMail(...), delete jobs[jobId],
\* Job.deleteOne({ jobId }).  A one-time job has no further invocation.
Fire(h) ==
    /\ phase = "up"
    /\ h \in timers
    /\ now >= sendAt[h[1]]
    /\ timers' = timers \ {h}
    /\ notified' = [notified EXCEPT ![h[1]] = @ + 1]
    /\ mail' = mail \cup {h}
    /\ jobs' = [jobs EXCEPT ![h[1]] = NoJob]
    /\ fdel' = fdel \cup {h}
    /\ UNCHANGED <<phase, now, crashes, store, sendAt, loader, scan,
                   sreq, creq, failed, atBoot, armed>>

\* The callback of sendMail: logs the error or the success.
MailDone(h, ok) ==
    /\ phase = "up"
    /\ h \in mail
    /\ mail' = mail \ {h}
    /\ failed' = IF ok THEN failed ELSE failed \cup {h[1]}
    /\ UNCHANGED <<phase, now, crashes, store, sendAt, jobs, timers,
                   loader, scan, sreq, creq, fdel, notified, atBoot, armed>>

\* The database deletes the document for the callback's deleteOne.
FireDelOk(h) ==
    /\ phase = "up"
    /\ h \in fdel
    /\ fdel' = fdel \ {h}
    /\ store' = store \ {h[1]}
    /\ UNCHANGED <<phase, now, crashes, sendAt, jobs, timers, loader,
                   scan, sreq, creq, mail, notified, failed, atBoot, armed>>

\* The callback's deleteOne fails: "Failed to delete job" is logged.
FireDelFail(h) ==
    /\ phase = "up"
    /\ h \in fdel
    /\ fdel' = fdel \ {h}
    /\ UNCHANGED <<phase, now, crashes, store, sendAt, jobs, timers,
                   loader, scan, sreq, creq, mail, notified, failed, atBoot, armed>>

\* ---- DELETE /cancel-email/:jobId ----

\* The handler up to `await Job.deleteOne(...)`, or to its 404.  The jobId
\* of the request is one that a schedule request has returned, or a made-up one.
\* The request remembers when it arrived: after the timer callback of its id
\* had run ("fired"), or as the first cancel of an id whose sendAt is still
\* ahead ("early"); and which cancels of the same id
\* were waiting for their deleteOne (with).
CancelStart(id) ==
    /\ phase = "up"
    /\ Arrived < MaxReqs
    /\ Len(creq) < MaxCancels
    /\ id \in Ids => sreq[id] = "ok"
    /\ LET found == id \in Ids /\ jobs[id] \notin {NoJob, NullJob}
           req == [id |-> id,
                   when |-> IF id = Unknown THEN "other"
                            ELSE IF notified[id] > 0 THEN "fired"
                            ELSE IF /\ now < sendAt[id]
                                    /\ \A k \in 1..Len(creq) : creq[k].id # id
                                 THEN "early"
                            ELSE "other",
                   with |-> {k \in 1..Len(creq) :
                               creq[k].id = id /\ creq[k].st \in {"deleting", "deleted"}},
                   st |-> IF found THEN "deleting" ELSE "notfound"]
       IN /\ creq' = Append(creq, req)
          /\ timers' = IF found THEN timers \ {<<id, jobs[id]>>} ELSE timers
          /\ jobs' = IF found THEN [jobs EXCEPT ![id] = NoJob] ELSE jobs
    /\ UNCHANGED <<phase, now, crashes, store, sendAt, loader, scan,
                   sreq, mail, fdel, notified, failed, atBoot, armed>>

\* The database deletes the document for the handler's deleteOne.
CancelDelOk(k) ==
    /\ phase = "up"
    /\ k \in 1..Len(creq)
    /\ creq[k].st = "deleting"
    /\ store' = store \ {creq[k].id}
    /\ creq' = [creq EXCEPT ![k].st = "deleted"]
    /\ UNCHANGED <<phase, now, crashes, sendAt, jobs, timers, loader,
                   scan, sreq, mail, fdel, notified, failed, atBoot, armed>>

\* The handler's deleteOne rejects.  index.js has no try: the handler throws
\* and never answers ("hung").  part_000 catches, logs and answers 500.
CancelDelFail(k, answer) ==
    /\ phase = "up"
    /\ k \in 1..Len(creq)
    /\ creq[k].st = "deleting"
    /\ creq' = [creq EXCEPT ![k].st = answer]
    /\ UNCHANGED <<phase, now, crashes, store, sendAt, jobs, timers,
                   loader, scan, sreq, mail, fdel, notified, failed, atBoot, armed>>

\* The handler after the await: "Job cancelled successfully".
CancelResume(k) ==
    /\ phase = "up"
    /\ k \in 1..Len(creq)
    /\ creq[k].st = "deleted"
    /\ creq' = [creq EXCEPT ![k].st = "ok"]
    /\ UNCHANGED <<phase, now, crashes, store, sendAt, jobs, timers,
                   loader, scan, sreq, mail, fdel, notified, failed, atBoot, armed>>

Next ==
    \/ Start
    \/ Tick
    \/ Crash
    \/ FindScan
    \/ FindFail
    \/ LoadResume
    \/ \E at \in SendTimes : SchedStart(at)
    \/ \E id \in Ids : SaveOk(id)
    \/ \E id \in Ids : SaveFail(id)
    \/ \E id \in Ids : SchedResume(id)
    \/ \E h \in Handles : Fire(h)
    \/ \E h \in Handles, ok \in BOOLEAN : MailDone(h, ok)
    \/ \E h \in Handles : FireDelOk(h)
    \/ \E h \in Handles : FireDelFail(h)
    \/ \E id \in Ids \cup {Unknown} : CancelStart(id)
    \/ \E k \in 1..MaxCancels : CancelDelOk(k)
    \/ \E k \in 1..MaxCancels, a \in {"hung", "err500"} : CancelDelFail(k, a)
    \/ \E k \in 1..MaxCancels : CancelResume(k)

Spec == Init /\ [][Next]_vars

\* The values the variables take.
TypeOK ==
    /\ phase \in {"up", "down"}
    /\ now \in Times
    /\ crashes \in 0..MaxCrashes
    /\ store \subseteq Ids
    /\ sendAt \in [Ids -> SendTimes]
    /\ jobs \in [Ids -> {NoJob, NullJob} \cup Origins]
    /\ timers \subseteq Handles
    /\ \A i \in Ids : jobs[i] \in Origins => <<i, jobs[i]>> \in timers
    /\ loader \in {"idle", "finding", "scanned", "done", "failed"}
    /\ scan \subseteq Ids
    /\ sreq \in [Ids -> {"none", "saving", "saved", "ok", "failed", "lost"}]
    /\ Len(creq) <= MaxCancels
    /\ \A k \in 1..Len(creq) :
          /\ creq[k].id \in Ids \cup {Unknown}
          /\ creq[k].st \in {"deleting", "deleted", "ok", "notfound",
                              "err500", "hung", "lost"}
    /\ mail \subseteq Handles
    /\ fdel \subseteq Handles
    /\ notified \in [Ids -> 0..2]
    /\ failed \subseteq Ids
    /\ atBoot \subseteq Ids
    /\ armed \subseteq Ids

\* ---- what an outside party observes ----

\* cancel requests for id that were answered "Job cancelled successfully"
CancelOk(id) == {k \in 1..Len(creq) : creq[k].id = id /\ creq[k].st = "ok"}
\* cancel requests whose handler ended without reporting success: 404, 500,
\* or no answer because the handler threw
CancelDenied == {k \in 1..Len(creq) : creq[k].st \in {"notfound", "err500", "hung"}}
\* the Notifier was invoked for id
Fired(id) == notified[id] > 0
\* id has a pending timer, under whatever handle
Live(id) == \E o \in Origins : <<id, o>> \in timers
\* the timer callback of id has issued a deleteOne that is still at the database
Cleaning(id) == \E o \in Origins : <<id, o>> \in fdel
\* a step of a request handler: its entry, or its resumption after the await
HandlerStep ==
    \/ \E at \in SendTimes : SchedStart(at)
    \/ \E id \in Ids : SchedResume(id)
    \/ \E id \in Ids \cup {Unknown} : CancelStart(id)
    \/ \E k \in 1..MaxCancels : CancelResume(k)
    \/ \E k \in 1..MaxCancels, a \in {"hung", "err500"} : CancelDelFail(k, a)

\* C1: Fired and Cancelled are mutually exclusive: for no id did a cancel
\* report success and was the Notifier invoked as well.
C1_FiredExcludesCancelled ==
    \A id \in Ids : ~(CancelOk(id) # {} /\ Fired(id))

\* C2: the first cancel of a scheduled task, issued before its sendAt, is not
\* denied; at most one cancel of the task succeeds; and once it succeeded the
\* Notifier has not been invoked for the task and the store holds no record.
C2_EarlyCancelSucceeds ==
    \A k \in 1..Len(creq) :
        creq[k].when = "early" =>
            /\ k \notin CancelDenied
            /\ Cardinality(CancelOk(creq[k].id)) <= 1
            /\ creq[k].st = "ok" =>
                  /\ ~Fired(creq[k].id)
                  /\ creq[k].id \notin store

\* C3: the Notifier is invoked at most once per task; a task that had a
\* timer and no cancel request has been notified when, with recovery done,
\* its sendAt is behind and no timer is left for it; and a cancel that
\* arrives after the callback ran is answered 404.
C3_FiresOnceThenNotFound ==
    /\ \A id \in Ids : notified[id] <= 1
    /\ \A id \in Ids :
          ( /\ id \in armed
            /\ \A k \in 1..Len(creq) : creq[k].id # id
            /\ phase = "up" /\ loader = "done"
            /\ now > sendAt[id]
            /\ ~Live(id) ) => notified[id] = 1
    /\ \A k \in 1..Len(creq) : creq[k].when = "fired" => creq[k].st = "notfound"

\* C4: of the cancels of one id that are in flight together, at most one
\* reports success: a cancel that arrived while another of the same id was
\* waiting for its deleteOne is answered 404.
C4_ConcurrentCancelOnce ==
    \A k \in 1..Len(creq) : \A j \in creq[k].with :
        /\ ~(creq[k].st = "ok" /\ creq[j].st = "ok")
        /\ creq[j].st = "ok" => creq[k].st = "notfound"

\* C5: no leak: when the callback of a task has run and its deleteOne has
\* come back, or a cancel of it has ended after finding the job, the id is in
\* neither the store nor the registry, whatever the deleteOne answered.
C5_NoLeak ==
    \A id \in Ids :
        ( \/ Fired(id) /\ ~Cleaning(id) /\ phase = "up"
          \/ \E k \in 1..Len(creq) :
                creq[k].id = id /\ creq[k].st \in {"ok", "err500", "hung"} )
        => id \notin store /\ jobs[id] = NoJob

\* C6: restart property: the step in which loadJobs arms its documents leaves
\* a live timer for every record that had its sendAt ahead when the process
\* started, and none of them is notified more than once.
C6_RestartRearmsAll ==
    /\ [][(loader = "scanned" /\ loader' = "done") =>
             \A id \in atBoot : Live(id)']_vars
    /\ [](\A id \in atBoot : notified[id] <= 1)

\* C7: recovery has finished before any request is handled: no handler step
\* is taken while loadJobs waits for Job.find or has not armed its answer.
C7_RecoveryBeforeRequests ==
    [][(loader \in {"finding", "scanned"}) => ~HandlerStep]_vars

\* C8: the step that returns the id to the caller of schedule has the record
\* in the store and a timer armed for the id; a save that fails changes
\* neither the store nor the registry.
C8_PersistThenArmThenAnswer ==
    [][\A id \in Ids :
          /\ (sreq[id] # "ok" /\ sreq'[id] = "ok") =>
                 id \in store' /\ <<id, "route">> \in timers' /\ jobs'[id] = "route"
          /\ (sreq[id] # "failed" /\ sreq'[id] = "failed") =>
                 UNCHANGED <<store, jobs, timers>>]_vars

\* C9: a schedule request whose sendAt is already behind is not answered with
\* an id unless the task is armed to fire: it is rejected, or it is scheduled.
C9_PastIsRejectedOrFires ==
    [][\A id \in Ids :
          (sreq[id] # "ok" /\ sreq'[id] = "ok" /\ sendAt[id] < now) =>
              Live(id)']_vars

\* C10: once the Notifier reported a failure for a task, the task is not
\* armed, the Notifier is not invoked for it again, its registry entry is
\* gone and, when its deleteOne has come back, so is its record.
C10_FailureIsFinal ==
    \A id \in failed :
        /\ ~Live(id)
        /\ notified[id] <= 1
        /\ jobs[id] = NoJob
        /\ (phase = "up" /\ ~Cleaning(id)) => id \notin store

\* C11: at-most-once delivery: over any run the Notifier is invoked at most
\* once per task id.
C11_AtMostOnceDelivery ==
    \A id \in Ids : notified[id] <= 1

\* the handles of id that have a pending invocation
LiveHandles(id) == {o \in Origins : <<id, o>> \in timers}
\* a cancel of id has disarmed a timer: its handler found the job
Disarmed(id) == \E k \in 1..Len(creq) : creq[k].id = id /\ creq[k].st # "notfound"

\* C12: a cancel is answered 404 only for an id that never existed or whose
\* task has fired or been cancelled: the step that answers 404 is not taken
\* for an id that schedule returned and that has neither fired nor been
\* disarmed by a cancel.
C12_NotFoundOnlyWhenGone ==
    [][\A id \in Ids :
          ( /\ Len(creq') = Len(creq) + 1
            /\ creq'[Len(creq')].id = id
            /\ creq'[Len(creq')].st = "notfound" )
          => (Fired(id) \/ Disarmed(id))]_vars

\* C13: in every state an id has at most one pending timer, counting every
\* handle created for it and not only the one stored in jobs[id].
C13_OneTimerPerId ==
    \A id \in Ids : Cardinality(LiveHandles(id)) <= 1

\* C14: Fired and Cancelled are terminal: once the Notifier was invoked for
\* an id or a cancel of it reported success, no step arms a timer for it.
C14_TerminalStates ==
    [][\A id \in Ids :
          (Fired(id) \/ CancelOk(id) # {}) =>
              LiveHandles(id)' \subseteq LiveHandles(id)]_vars

\* recovery has finished and no schedule, cancel or cleanup is in progress
Quiescent ==
    /\ phase = "up"
    /\ loader = "done"
    /\ \A i \in Ids : sreq[i] \notin {"saving", "saved"}
    /\ \A k \in 1..Len(creq) : creq[k].st \notin {"deleting", "deleted"}
    /\ fdel = {}

\* C15: in every quiescent state the ids with a record in the store are the
\* ids with a live timer in the registry.
C15_StoreEqualsRegistry ==
    Quiescent => store = {i \in Ids : jobs[i] \in Origins}

\* C16: once the timer callback of an id has begun, every cancel of the id
\* is answered 404, also while sendMail and deleteOne are outstanding.
C16_CancelAfterFireFails ==
    \A k \in 1..Len(creq) : creq[k].when = "fired" => creq[k].st = "notfound"

\* what one pass of loadJobs writes to the log for the documents it was given:
\* scheduleEmail logs "New job scheduled" for every document, whether or not
\* scheduleJob returned a job; nothing else is logged.
LoadLog(docs) == [id \in docs |-> "New job scheduled"]

\* C18: the recovery pass arms every loaded record it can, and every record
\* it leaves without a timer has a log entry saying that it was skipped.
C18_SkipsAreLogged ==
    [][(loader = "scanned" /\ loader' = "done") =>
          \A id \in scan :
              \/ <<id, "load">> \in timers'
              \/ LoadLog(scan)[id] = "skipped"]_vars

\* C19: the step that answers 'Job cancelled successfully' to a cancel of id
\* is taken only in a state where the store holds no record of id and id has
\* no live timer.
C19_SuccessMeansGone ==
    [][\A k \in 1..Len(creq) :
          (creq[k].st # "ok" /\ creq'[k].st = "ok") =>
              /\ creq[k].id \notin store'
              /\ LiveHandles(creq[k].id)' = {}]_vars

\* C20: every id with a live timer has a record in the store.
C20_TimerImpliesRecord ==
    \A id \in Ids : LiveHandles(id) # {} => id \in store

\* the steps that can be taken while a sendMail call is outstanding
Unblocked ==
    /\ \A h \in fdel : ENABLED FireDelOk(h)
    /\ \A h \in timers : now >= sendAt[h[1]] => ENABLED Fire(h)
    /\ \A id \in Ids :
          /\ sreq[id] = "saving" => ENABLED SaveOk(id)
          /\ sreq[id] = "saved" => ENABLED SchedResume(id)
          /\ (sreq[id] = "ok" /\ Arrived < MaxReqs /\ Len(creq) < MaxCancels)
                => ENABLED CancelStart(id)
    /\ \A k \in 1..Len(creq) :
          /\ creq[k].st = "deleting" => ENABLED CancelDelOk(k)
          /\ creq[k].st = "deleted" => ENABLED CancelResume(k)
    /\ (Arrived < MaxReqs /\ \E i \in Ids : sreq[i] = "none")
          => \A at \in SendTimes : ENABLED SchedStart(at)

\* C17: a sendMail call that has not returned blocks nothing: the step that
\* starts it also removes the task's timer and registry entry and issues the
\* delete of its record, and while any sendMail call is outstanding the store
\* delete, every due timer of another task, and every schedule and cancel
\* handler can take its next step.
C17_HungNotifierBlocksNothing ==
    /\ []((phase = "up" /\ mail # {}) => Unblocked)
    /\ [][\A h \in Handles :
            (h \notin mail /\ h \in mail') =>
                /\ h \notin timers'
                /\ jobs'[h[1]] = NoJob
                /\ h \in fdel']_vars

\* a sendMail call is still outstanding for one task whose record has been
\* deleted meanwhile, another task has fired, and a cancel was answered
C17_Witness ==
    \E h \in mail :
        /\ h \notin fdel
        /\ h[1] \notin store
        /\ jobs[h[1]] = NoJob
        /\ \E id \in Ids \ {h[1]} : Fired(id) /\ ~Cleaning(id) /\ id \notin store
        /\ \E k \in 1..Len(creq) : creq[k].st \in {"ok", "notfound"}

====
